---- MODULE Spec2Model ----
(***************************************************************************)
(* Firebase admin backend: an Express server whose handlers forward to the *)
(* identity directory (firebase auth), the record store (firebase realtime *)
(* database) and the asset host (cloudinary).  The repository holds        *)
(* several copies of the server; each copy is a variant of this model and  *)
(* every handler is translated copy by copy.                               *)
(*                                                                         *)
(* Strings are sequences of one-character strings, so that the path and    *)
(* URL computations of the handlers are computed and not assumed.          *)
(***************************************************************************)
EXTENDS Integers, Sequences, FiniteSets, TLC

VARIABLES
    variant,   \* which copy of the server is running
    server,    \* the process: its phase, the key file and the environment
    auth,      \* identity directory: uid -> [disabled, providerData]; DOMAIN = existing users
    db,        \* record store: uid -> profile record under users/<uid>
    assets,    \* asset host: set of <<public id, resource type>>
    folders,   \* asset host: set of existing folder paths
    toggles,   \* per uid, the routes of the last two fulfilled updateUser calls
    served,    \* number of requests received so far
    reqs       \* per connection, the request being handled

vars == <<variant, server, auth, db, assets, folders, toggles, served, reqs>>

\* ------------------------------------------------------------------ bounds

\* Requests received in one run of the server.
MaxRequests == 2

\* ------------------------------------------------------------- the copies

\* part_002 holds two copies: lines 1-183 have the handlers of index.js 1-199
\* and lines 185-391 those of part_004 (same calls, same catch blocks).
Variants ==
    {"index_a", "index_b", "part_000", "part_001", "part_003", "part_004", "part_005"}

\* the connections requests arrive on; requests on different connections
\* interleave at their awaits
Conns == {"c1", "c2"}

\* ----------------------------------------------------------------- strings

null == <<>>

Truthy(s) == s # null

IsPrefix(p, s) == Len(p) <= Len(s) /\ SubSeq(s, 1, Len(p)) = p

\* String.prototype.includes for a one-character needle
Includes(s, ch) == \E i \in 1..Len(s) : s[i] = ch

\* String.prototype.lastIndexOf (0-based, -1 when absent)
LastIndexOf(s, ch) ==
    IF Includes(s, ch)
    THEN (CHOOSE i \in 1..Len(s) :
              s[i] = ch /\ \A j \in (i + 1)..Len(s) : s[j] # ch) - 1
    ELSE -1

Clamp(n, len) == IF n < 0 THEN 0 ELSE IF n > len THEN len ELSE n

\* String.prototype.substring(start, end): arguments clamped to [0, length],
\* swapped when start > end
Substring(s, start, end) ==
    LET a == Clamp(start, Len(s))
        b == Clamp(end, Len(s))
        lo == IF a <= b THEN a ELSE b
        hi == IF a <= b THEN b ELSE a
    IN  SubSeq(s, lo + 1, hi)

\* two user ids, one a prefix of the other
Uids == {<<"a">>, <<"a", "b">>}

\* `user/${uid}`
folderPath(uid) == <<"u", "s", "e", "r", "/">> \o uid

ResourceTypes == {"image", "video", "raw"}

\* the one asset a user uploads: user/<uid>/x
AssetId(uid) == folderPath(uid) \o <<"/", "x">>

\* an id without a separator
BareId == <<"x">>

\* ------------------------------------------------------------------ errors

\* http_code of the asset host's not-found error, tested by a catch block
HttpNotFound == 404

\* errors of the identity directory and the record store carry a code and a
\* message and no http_code; errors of the asset host carry http_code
ErrUserNotFound == [message |-> "auth/user-not-found"]
ErrAuthInternal == [message |-> "auth/internal-error"]
ErrDatabase     == [message |-> "database unavailable"]
ErrFolderNotFound == [message |-> "Can't find folder", http_code |-> HttpNotFound]
ErrFolderNotEmpty == [message |-> "Folder is not empty", http_code |-> 400]
ErrAssetHost      == [message |-> "General Error", http_code |-> 500]
\* part_001 never requires cloudinary: evaluating cloudinary.api throws
ErrNotDefined == [message |-> "cloudinary is not defined"]
ErrEmailExists == [message |-> "auth/email-already-exists"]
NoError == [message |-> ""]

\* ------------------------------------------------------------ handler steps

NoResponse == [status |-> 0, body |-> [none |-> TRUE]]

(* A handler is the sequence of its awaited calls.  Each step says what the
   code does when the call rejects:
     "throw"  the rejection reaches the handler's catch block;
     "skip"   an inner try/catch swallows it and control resumes at `resume`;
     "warn"   a try/catch around this call alone logs it;
     "record" deleteResourceByType stores { error: err.message } under `key`.
   A fulfilled call stores its value under `key` when the code keeps it. *)
Call(op, arg) ==
    [op |-> op, arg |-> arg, type |-> "", val |-> FALSE,
     onFail |-> "throw", resume |-> 0, key |-> ""]

\* --- DELETE /users/:uid, copy by copy

deleteUser_index_b(uid) ==
    << Call("deleteUser", uid) >>

deleteUser_index_a(uid) ==
    << Call("deleteUser", uid),
       Call("remove", uid) >>

deleteUser_part_001(uid) ==
    << Call("remove", uid),
       Call("deleteUser", uid) >>

\* delete_resources_by_prefix without resource_type: the SDK's default, image
deleteUser_part_003(uid) ==
    << [Call("delete_resources_by_prefix", folderPath(uid)) EXCEPT !.type = "image"],
       Call("delete_folder", folderPath(uid)),
       Call("remove", uid),
       Call("deleteUser", uid) >>

deleteUser_part_005(uid) ==
    << [Call("delete_resources_by_prefix", folderPath(uid))
            EXCEPT !.type = "image", !.onFail = "skip", !.resume = 4],
       [Call("delete_resources_by_prefix", folderPath(uid))
            EXCEPT !.type = "video", !.onFail = "skip", !.resume = 4],
       [Call("delete_folder", folderPath(uid))
            EXCEPT !.onFail = "skip", !.resume = 4],
       Call("remove", uid),
       Call("deleteUser", uid) >>

deleteUser(v, uid) ==
    CASE v = "index_b"  -> deleteUser_index_b(uid)
      [] v = "part_001" -> deleteUser_part_001(uid)
      [] v = "part_003" -> deleteUser_part_003(uid)
      [] v = "part_005" -> deleteUser_part_005(uid)
      [] OTHER          -> deleteUser_index_a(uid)

deleteUserSuccess(v, uid) ==
    [status |-> 200,
     body |-> [success |-> TRUE,
               message |-> <<"User", uid,
                             IF v = "index_b" THEN "deleted successfully."
                             ELSE IF v \in {"part_001", "part_003", "part_005"}
                                  THEN "and all associated data have been deleted."
                                  ELSE "and database entries deleted.">>]]

deleteUserFailure(v, err) ==
    [status |-> 500,
     body |-> [error |-> IF v \in {"part_003", "part_005"}
                         THEN "Failed to delete user completely"
                         ELSE "Failed to delete user",
               details |-> err.message]]

\* a catch block that reports success whatever was thrown
deleteUserCatch_reportsSuccess(v, uid, err) == deleteUserSuccess(v, uid)

\* the catch block; part_003 answers success when err.http_code === 404
deleteUserCatch(v, uid, err) ==
    IF v = "part_003" /\ "http_code" \in DOMAIN err /\ err.http_code = HttpNotFound
    THEN [status |-> 200,
          body |-> [success |-> TRUE,
                    message |-> <<"User", uid,
                                  "and all associated data have been deleted.">>]]
    ELSE deleteUserFailure(v, err)

\* --- POST /users/:uid/disable and /enable (the same in every copy)

disableUser(uid) ==
    << [Call("updateUser", uid) EXCEPT !.val = TRUE] >>

\* enable written with the flag of disable
enableUser_setsDisabled(uid) ==
    << [Call("updateUser", uid) EXCEPT !.val = TRUE] >>

enableUser(uid) ==
    << [Call("updateUser", uid) EXCEPT !.val = FALSE] >>

disableSuccess(uid) ==
    [status |-> 200,
     body |-> [success |-> TRUE, message |-> <<"User", uid, "has been disabled.">>]]

enableSuccess(uid) ==
    [status |-> 200,
     body |-> [success |-> TRUE, message |-> <<"User", uid, "has been enabled.">>]]

\* a catch block that answers with the confirmation
disableCatch_confirms(err) ==
    [status |-> 200,
     body |-> [success |-> TRUE, message |-> <<"User", "has been disabled.">>]]

disableCatch(err) ==
    [status |-> 500,
     body |-> [error |-> "Failed to disable user", details |-> err.message]]

enableCatch(err) ==
    [status |-> 500,
     body |-> [error |-> "Failed to enable user", details |-> err.message]]

\* --- POST /delete-cloudinary-assets, copy by copy

UploadPrefix == <<"u", "p", "l", "o", "a", "d", "/">>

Digits == {"0", "1", "2", "3", "4", "5", "6", "7", "8", "9"}

\* the version group: part_001 has v\d+\/ ; the text of part_005 has vd+/
IsVersionChar(v, ch) == IF v = "part_005" THEN ch = "d" ELSE ch \in Digits

\* between the captured id and the extension: part_001 has \. ; part_005 has .
IsSeparator(v, ch) == IF v = "part_005" THEN TRUE ELSE ch = "."

\* index after "v<version chars>/" starting at j, or 0 when the group fails
VersionEnd(v, s, j) ==
    IF j <= Len(s) /\ s[j] = "v"
    THEN LET ends == {e \in (j + 2)..Len(s) :
                         /\ s[e] = "/"
                         /\ \A m \in (j + 1)..(e - 1) : IsVersionChar(v, s[m])}
         IN  IF ends = {} THEN 0 ELSE (CHOOSE e \in ends : TRUE) + 1
    ELSE 0

\* lengths k of (.+?) starting at j for which the rest matches sep [^.]+ $
CaptureLengths(v, s, j) ==
    {k \in 1..Len(s) :
        /\ j + k + 1 <= Len(s)
        /\ IsSeparator(v, s[j + k])
        /\ \A m \in (j + k + 1)..Len(s) : s[m] # "."}

Shortest(ks) == CHOOSE k \in ks : \A x \in ks : k <= x

\* the match of the regex with "upload/" at index i, or null
MatchAt(v, s, i) ==
    IF ~(i + Len(UploadPrefix) - 1 <= Len(s)
         /\ SubSeq(s, i, i + Len(UploadPrefix) - 1) = UploadPrefix)
    THEN null
    ELSE LET j  == i + Len(UploadPrefix)
             jv == VersionEnd(v, s, j)
         IN  IF jv # 0 /\ CaptureLengths(v, s, jv) # {}
             THEN SubSeq(s, jv, jv + Shortest(CaptureLengths(v, s, jv)) - 1)
             ELSE IF CaptureLengths(v, s, j) # {}
                  THEN SubSeq(s, j, j + Shortest(CaptureLengths(v, s, j)) - 1)
                  ELSE null

extractPublicIdFromUrl(v, url) ==
    IF ~Truthy(url) THEN null
    ELSE LET starts == {i \in 1..Len(url) : MatchAt(v, url, i) # null}
         IN  IF starts = {} THEN null
             ELSE MatchAt(v, url, CHOOSE i \in starts : \A x \in starts : i <= x)

\* ids pushed by part_001
urlPublicIds(v, body) ==
    LET artworkId == extractPublicIdFromUrl(v, body.artworkUrl)
        audioId   == extractPublicIdFromUrl(v, body.audioUrl)
    IN  (IF Truthy(artworkId) THEN <<artworkId>> ELSE <<>>)
        \o (IF Truthy(audioId) THEN <<audioId>> ELSE <<>>)

\* firstId.substring(0, firstId.lastIndexOf('/'))
folderOfFirstId(public_ids) ==
    Substring(public_ids[1], 0, LastIndexOf(public_ids[1], "/"))

\* firstId.includes("/") ? firstId.substring(0, firstId.lastIndexOf("/")) : null
folderToDelete(public_ids) ==
    IF Includes(public_ids[1], "/") THEN folderOfFirstId(public_ids) ELSE null

deleteAssets_part_000(body) ==
    << [Call("delete_resources", body.public_ids) EXCEPT !.type = "image"],
       [Call("delete_resources", body.public_ids) EXCEPT !.type = "video"],
       Call("delete_folder", folderOfFirstId(body.public_ids)) >>

deleteAssets_index_a(body) ==
    << [Call("delete_resources", body.public_ids) EXCEPT !.type = "image"],
       [Call("delete_resources", body.public_ids) EXCEPT !.type = "video"],
       [Call("delete_resources", body.public_ids) EXCEPT !.type = "raw"] >>
    \o (IF Truthy(folderOfFirstId(body.public_ids))
        THEN << [Call("delete_folder", folderOfFirstId(body.public_ids))
                    EXCEPT !.onFail = "warn"] >>
        ELSE << >>)

\* delete_resources(public_ids) without resource_type: the SDK's default, image
deleteAssets_part_001(body) ==
    << [Call("delete_resources", urlPublicIds("part_001", body))
            EXCEPT !.type = "image", !.key = "result"] >>

deleteResourceByType(public_ids, type) ==
    [Call("delete_resources", public_ids)
        EXCEPT !.type = type, !.onFail = "record", !.key = type]

deleteAssets_part_003(body) ==
    << deleteResourceByType(body.public_ids, "image"),
       deleteResourceByType(body.public_ids, "video"),
       deleteResourceByType(body.public_ids, "raw") >>
    \o (IF Truthy(folderToDelete(body.public_ids))
        THEN << [Call("delete_folder", folderToDelete(body.public_ids))
                    EXCEPT !.onFail = "warn"] >>
        ELSE << >>)

deleteAssets_part_005(body) ==
    LET artworkId == extractPublicIdFromUrl("part_005", body.artworkUrl)
        audioId   == extractPublicIdFromUrl("part_005", body.audioUrl)
    IN  (IF Truthy(artworkId)
         THEN << [Call("delete_resources", <<artworkId>>)
                     EXCEPT !.type = "image", !.key = "artwork"] >>
         ELSE << >>)
        \o (IF Truthy(audioId)
            THEN << [Call("delete_resources", <<audioId>>)
                        EXCEPT !.type = "video", !.key = "audio"] >>
            ELSE << >>)

deleteAssets(v, body) ==
    CASE v = "part_000" -> deleteAssets_part_000(body)
      [] v = "index_a"  -> deleteAssets_index_a(body)
      [] v = "part_001" -> deleteAssets_part_001(body)
      [] v = "part_005" -> deleteAssets_part_005(body)
      [] OTHER          -> deleteAssets_part_003(body)

\* the response sent before any call, or NoResponse when the handler goes on
deleteAssetsEarly(v, body) ==
    CASE v = "part_005" -> NoResponse
      [] v = "part_001" ->
            IF Len(urlPublicIds(v, body)) = 0
            THEN [status |-> 200, body |-> [message |-> "No assets to delete."]]
            ELSE NoResponse
      [] OTHER ->
            IF \/ (~body.isArray /\ ~Truthy(body.public_ids))
               \/ ~body.isArray
               \/ Len(body.public_ids) = 0
            THEN [status |-> 400, body |-> [error |-> "Missing 'public_ids' array."]]
            ELSE NoResponse

deleteAssetsSuccess(v, results) ==
    CASE v = "part_000" ->
            [status |-> 200,
             body |-> [message |-> "Assets and folder deleted successfully."]]
      [] v = "index_a" ->
            [status |-> 200,
             body |-> [message |-> "Assets and folder cleanup process initiated."]]
      [] v = "part_001" ->
            [status |-> 200,
             body |-> [message |-> "Assets deleted successfully.",
                       details |-> results["result"]]]
      [] v = "part_005" ->
            [status |-> 200,
             body |-> [message |-> "Assets deleted successfully.",
                       details |-> results]]
      [] OTHER ->
            [status |-> 200,
             body |-> [message |-> "Asset cleanup process finished.",
                       details |-> results]]

deleteAssetsCatch(v, err) ==
    CASE v = "part_000" ->
            [status |-> 500, body |-> [error |-> "Failed to delete assets."]]
      [] v = "index_a" ->
            [status |-> 500, body |-> [error |-> err.message]]
      [] v \in {"part_001", "part_005"} ->
            \* an undefined http_code is left out of the JSON body
            IF "http_code" \in DOMAIN err
            THEN [status |-> 500,
                  body |-> [error |-> "Failed to delete Cloudinary assets.",
                            details |-> err.message, http_code |-> err.http_code]]
            ELSE [status |-> 500,
                  body |-> [error |-> "Failed to delete Cloudinary assets.",
                            details |-> err.message]]
      [] OTHER ->
            [status |-> 500,
             body |-> [error |-> "An unexpected server error occurred."]]

\* --- POST /delete-cloudinary-folder (index.js 135-158, part_000, part_003,
\* part_004; part_001, part_005 and index.js 200-364 have no such route)

FolderRouteCopies == {"index_a", "part_000", "part_003", "part_004"}

\* delete_resources_by_prefix without resource_type: the SDK's default, image
deleteFolder(body) ==
    << [Call("delete_resources_by_prefix", body.folder) EXCEPT !.type = "image"],
       Call("delete_folder", body.folder) >>

deleteFolderEarly(body) ==
    IF ~Truthy(body.folder)
    THEN [status |-> 400, body |-> [error |-> "Missing 'folder' path."]]
    ELSE NoResponse

deleteFolderSuccess ==
    [status |-> 200, body |-> [message |-> "Folder and all assets deleted successfully."]]

\* a catch block that reports the failure
deleteFolderCatch_reportsFailure(err) ==
    [status |-> 500, body |-> [error |-> err.message]]

deleteFolderCatch(err) ==
    [status |-> 200, body |-> [message |-> "Cleanup process finished."]]

\* --- POST /users (the same in every copy)

createUser(body) ==
    << [Call("createUser", body.email) EXCEPT !.key = "user"] >>

\* a validation that lets a body without password through
createUserEarly_requiresEmailOnly(body) ==
    IF ~Truthy(body.email)
    THEN [status |-> 400, body |-> [error |-> "Email and password are required fields."]]
    ELSE NoResponse

\* if (!email || !password) return res.status(400)
createUserEarly(body) ==
    IF ~Truthy(body.email) \/ ~Truthy(body.password)
    THEN [status |-> 400, body |-> [error |-> "Email and password are required fields."]]
    ELSE NoResponse

createUserSuccess(results) ==
    [status |-> 201, body |-> results["user"]]

createUserCatch(err) ==
    [status |-> 400, body |-> [error |-> "Failed to create user", details |-> err.message]]

\* --- GET /users

Some(seq, x) == \E i \in 1..Len(seq) : seq[i] = x

\* the provider of the first entry only
providerIdOf_firstEntryOnly(v, providerData) ==
    IF Len(providerData) > 0 /\ providerData[1] = "google.com"
    THEN "google.com" ELSE "password"

\* index.js 255-263 tests the list before .some(); the other copies call .some()
providerIdOf(v, providerData) ==
    IF v = "index_b"
    THEN IF Len(providerData) > 0 /\ Some(providerData, "google.com")
         THEN "google.com" ELSE "password"
    ELSE IF Some(providerData, "google.com") THEN "google.com" ELSE "password"

listUsers ==
    << [Call("listUsers", null) EXCEPT !.key = "users"] >>

\* res.json(users): one entry per listed user record
listUsersSuccess(v, results) ==
    [status |-> 200,
     body |-> [users |->
                 [uid \in DOMAIN results["users"] |->
                     [uid |-> uid,
                      disabled |-> results["users"][uid].disabled,
                      providerId |->
                          providerIdOf(v, results["users"][uid].providerData)]]]]

listUsersCatch(err) ==
    [status |-> 500, body |-> [error |-> "Failed to list users", details |-> err.message]]

\* --- the client-facing routes of part_005: the middleware

\* 'Bearer '
Bearer == <<"B", "e", "a", "r", "e", "r", " ">>

\* String.prototype.slice(n) for 0 <= n
Slice(s, n) == SubSeq(s, n + 1, Len(s))

\* req.headers.authorization || '' ; authHeader.startsWith('Bearer ')
hasBearer(body) == IsPrefix(Bearer, body.authorization)

\* a middleware that turns a rejected App Check token into a failure
verifyAppCheck_enforced(body) ==
    IF Truthy(body.appcheck)
    THEN << [Call("verifyToken", body.appcheck) EXCEPT !.key = "appCheck"] >>
    ELSE << >>

\* if (!appCheckToken) return next(); a rejected verifyToken is logged and
\* next() is called all the same
verifyAppCheck(body) ==
    IF Truthy(body.appcheck)
    THEN << [Call("verifyToken", body.appcheck)
                EXCEPT !.onFail = "warn", !.key = "appCheck"] >>
    ELSE << >>

\* decoded = await auth.verifyIdToken(authHeader.slice(7)); req.user = decoded;
\* without 'Bearer ' the 401 is sent and no call is made
verifyFirebaseToken(body) ==
    IF hasBearer(body)
    THEN << [Call("verifyIdToken", Slice(body.authorization, Len(Bearer)))
                EXCEPT !.key = "user"] >>
    ELSE << >>

MissingBearer == [status |-> 401, body |-> [error |-> "Missing Bearer token"]]

\* a catch block that neither responds nor calls next()
verifyFirebaseTokenCatch_silent(err) == NoResponse

\* the catch block of verifyFirebaseToken
verifyFirebaseTokenCatch(err) ==
    [status |-> 401, body |-> [error |-> "Invalid or expired token"]]

\* --- validatePlanUpdate

\* a JSON value of the request body, by what typeof and Number.isFinite say
Num(n) == [type |-> "number", finite |-> TRUE, n |-> n]

\* 1e999 in a JSON body parses to Infinity
Infinity == [type |-> "number", finite |-> FALSE, n |-> 0]

StringValue == [type |-> "string", finite |-> FALSE, n |-> 0]

Undefined == [type |-> "undefined", finite |-> FALSE, n |-> 0]

allowedPlans == {"plan1", "plan2", "plan3", "custom"}

\* a validation without the test of the sign
validatePlanUpdate_noSignTest(plan, value) ==
    IF plan \notin allowedPlans THEN "Invalid plan"
    ELSE IF value.type # "number" \/ ~value.finite THEN "Value must be a number"
    ELSE ""

\* the message of the first failed test; "" stands for null
validatePlanUpdate(plan, value) ==
    IF plan \notin allowedPlans THEN "Invalid plan"
    ELSE IF value.type # "number" \/ ~value.finite THEN "Value must be a number"
    ELSE IF value.n < 0 THEN "Value must be >= 0"
    ELSE ""

\* --- POST /api/user/init

\* admin.database.ServerValue.TIMESTAMP: replaced by the store's clock on write
ServerTimestamp == -1

\* { plan1: 0, plan2: 0, plan3: 0, custom: 0 }
ZeroTiers == [p \in allowedPlans |-> Num(0)]

\* the record of userRef.set(...)
NewProfile ==
    [accountStatus |-> "active", subscription |-> ZeroTiers,
     createdAt |-> ServerTimestamp]

\* updates that reset the subscription of every record
initUpdates_resetsSubscription(current) ==
    [k \in {"subscription"} \cup {x \in {"accountStatus"} : x \notin DOMAIN current} |->
        IF k = "accountStatus" THEN "active" ELSE ZeroTiers]

\* the updates object: a key is added when current[key] === undefined
initUpdates(current) ==
    [k \in {x \in {"accountStatus", "subscription"} : x \notin DOMAIN current} |->
        IF k = "accountStatus" THEN "active" ELSE ZeroTiers]

\* the middleware, then get; then set when the snapshot does not exist, and
\* update when it exists and a key is missing
userInit(r) ==
    verifyAppCheck(r.body) \o verifyFirebaseToken(r.body)
    \o (IF "user" \notin DOMAIN r.results THEN << >>
        ELSE LET uid == r.results["user"].uid IN
             << [Call("get", uid) EXCEPT !.key = "snap"] >>
             \o (IF "snap" \notin DOMAIN r.results THEN << >>
                 ELSE IF ~r.results["snap"].exists
                      THEN << [Call("set", uid) EXCEPT !.val = NewProfile] >>
                      ELSE IF DOMAIN initUpdates(r.results["snap"].val) # {}
                           THEN << [Call("update", uid)
                                       EXCEPT !.val = initUpdates(r.results["snap"].val)] >>
                           ELSE << >>))

userInitSuccess(r) ==
    IF ~hasBearer(r.body) THEN MissingBearer
    ELSE [status |-> 200, body |-> [ok |-> TRUE]]

userInitCatch(err) ==
    [status |-> 500, body |-> [error |-> "Server error"]]

\* --- POST /api/subscription/upgrade

\* the middleware, then db.ref(`users/${uid}/subscription/${plan}`).set(value)
\* when validatePlanUpdate returned null
upgrade(r) ==
    verifyAppCheck(r.body) \o verifyFirebaseToken(r.body)
    \o (IF "user" \in DOMAIN r.results
           /\ validatePlanUpdate(r.body.plan, r.body.value) = ""
        THEN << [Call("setTier", r.results["user"].uid)
                    EXCEPT !.type = r.body.plan, !.val = r.body.value] >>
        ELSE << >>)

upgradeSuccess(r) ==
    IF ~hasBearer(r.body) THEN MissingBearer
    ELSE IF validatePlanUpdate(r.body.plan, r.body.value) # ""
         THEN [status |-> 400,
               body |-> [error |-> validatePlanUpdate(r.body.plan, r.body.value)]]
         ELSE [status |-> 200, body |-> [ok |-> TRUE]]

\* a catch block whose body has no error field
upgradeCatch_noErrorField(err) ==
    [status |-> 500, body |-> [ok |-> FALSE]]

upgradeCatch(err) ==
    [status |-> 500, body |-> [error |-> "Server error"]]

\* ---------------------------------------------------------------- requests

\* a request with none of the body fields and headers the handlers read;
\* isArray says whether public_ids is an array (a string is a sequence of
\* characters, not an array); an undefined plan is ""
EmptyBody ==
    [public_ids |-> null, isArray |-> FALSE, artworkUrl |-> null, audioUrl |-> null,
     folder |-> null, email |-> null, password |-> null,
     authorization |-> null, appcheck |-> null, plan |-> "", value |-> Undefined]

\* https://host/upload/v1/<id>.p, shortened
UrlOf(id) == <<"h", "/">> \o UploadPrefix \o <<"v", "1", "/">> \o id \o <<".", "p">>

\* the same without the version segment
PlainUrlOf(id) == <<"h", "/">> \o UploadPrefix \o id \o <<".", "p">>

MalformedUrl == <<"h", "/", "x">>

\* request bodies of POST /delete-cloudinary-assets
Bodies ==
    {[EmptyBody EXCEPT !.public_ids = ids, !.isArray = TRUE] :
        ids \in {<<>>, <<AssetId(<<"a">>)>>, <<BareId>>}}
    \cup {[EmptyBody EXCEPT !.public_ids = AssetId(<<"a">>)]}
    \cup {[EmptyBody EXCEPT !.artworkUrl = art, !.audioUrl = aud] :
            art \in {null, UrlOf(AssetId(<<"a">>)), MalformedUrl},
            aud \in {null, UrlOf(AssetId(<<"a">>)), PlainUrlOf(AssetId(<<"a">>))}}

Idle ==
    [kind |-> "", uid |-> null, body |-> EmptyBody, pc |-> "idle", ip |-> 1,
     plan |-> <<>>, calls |-> <<>>, results |-> <<>>, err |-> NoError,
     res |-> NoResponse, sent |-> 0,
     pre |-> [identity |-> FALSE, profile |-> FALSE, assets |-> {}, folder |-> FALSE,
              disabled |-> FALSE, users |-> {}, stored |-> {}]]

\* a connection no request arrives on
Closed == [Idle EXCEPT !.pc = "closed"]

\* the awaited calls of the handler of request r, as far as the values it has
\* received determine them
Plan(r) ==
    CASE r.kind = "DELETE /users/:uid"             -> deleteUser(variant, r.uid)
      [] r.kind = "POST /users/:uid/disable"       -> disableUser(r.uid)
      [] r.kind = "POST /users/:uid/enable"        -> enableUser(r.uid)
      [] r.kind = "POST /delete-cloudinary-assets" -> deleteAssets(variant, r.body)
      [] r.kind = "POST /delete-cloudinary-folder" -> deleteFolder(r.body)
      [] r.kind = "POST /users"                    -> createUser(r.body)
      [] r.kind = "GET /users"                     -> listUsers
      [] r.kind = "POST /api/user/init"            -> userInit(r)
      [] r.kind = "POST /api/subscription/upgrade" -> upgrade(r)
      [] OTHER                                     -> <<>>

\* the response at the end of the try block
Success(r) ==
    CASE r.kind = "DELETE /users/:uid"             -> deleteUserSuccess(variant, r.uid)
      [] r.kind = "POST /users/:uid/disable"       -> disableSuccess(r.uid)
      [] r.kind = "POST /users/:uid/enable"        -> enableSuccess(r.uid)
      [] r.kind = "POST /delete-cloudinary-assets" ->
            deleteAssetsSuccess(variant, r.results)
      [] r.kind = "POST /delete-cloudinary-folder" -> deleteFolderSuccess
      [] r.kind = "POST /users"                    -> createUserSuccess(r.results)
      [] r.kind = "GET /users"                     -> listUsersSuccess(variant, r.results)
      [] r.kind = "POST /api/user/init"            -> userInitSuccess(r)
      [] r.kind = "POST /api/subscription/upgrade" -> upgradeSuccess(r)

\* the rejected call is the verifyIdToken of the middleware
TokenRejected(r) ==
    Len(r.calls) > 0 /\ r.calls[Len(r.calls)].op = "verifyIdToken"

\* the response of the catch block the rejection reached
Catch(r) ==
    CASE r.kind = "DELETE /users/:uid"             ->
            deleteUserCatch(variant, r.uid, r.err)
      [] r.kind = "POST /users/:uid/disable"       -> disableCatch(r.err)
      [] r.kind = "POST /users/:uid/enable"        -> enableCatch(r.err)
      [] r.kind = "POST /delete-cloudinary-assets" ->
            deleteAssetsCatch(variant, r.err)
      [] r.kind = "POST /delete-cloudinary-folder" -> deleteFolderCatch(r.err)
      [] r.kind = "POST /users"                    -> createUserCatch(r.err)
      [] r.kind = "GET /users"                     -> listUsersCatch(r.err)
      [] r.kind = "POST /api/user/init"            ->
            IF TokenRejected(r) THEN verifyFirebaseTokenCatch(r.err)
            ELSE userInitCatch(r.err)
      [] r.kind = "POST /api/subscription/upgrade" ->
            IF TokenRejected(r) THEN verifyFirebaseTokenCatch(r.err)
            ELSE upgradeCatch(r.err)

Put(m, k, val) == [x \in DOMAIN m \cup {k} |-> IF x = k THEN val ELSE m[x]]

Range(seq) == {seq[i] : i \in 1..Len(seq)}

Invoked(r, s, ok) ==
    Append(r.calls, [op |-> s.op, arg |-> s.arg, type |-> s.type, val |-> s.val,
                     ok |-> ok])

\* the handler with the calls that follow from the values it has received
Continued(r) == [r EXCEPT !.plan = Plan(r)]

\* the handler after the awaited call of step s was fulfilled with value
Fulfilled(r, s, value) ==
    Continued([r EXCEPT !.ip = @ + 1,
                        !.calls = Invoked(r, s, TRUE),
                        !.results = IF s.key = "" THEN @ ELSE Put(@, s.key, value)])

\* a handler that makes a tolerated call again after it was rejected
Rejected_retries(r, s, err) ==
    IF s.onFail = "throw"
    THEN [r EXCEPT !.pc = "catch", !.err = err, !.calls = Invoked(r, s, FALSE)]
    ELSE [r EXCEPT !.calls = Invoked(r, s, FALSE)]

\* the handler after the awaited call of step s was rejected with err
Rejected(r, s, err) ==
    CASE s.onFail = "throw" ->
            [r EXCEPT !.pc = "catch", !.err = err, !.calls = Invoked(r, s, FALSE)]
      [] s.onFail = "skip" ->
            [r EXCEPT !.ip = s.resume, !.calls = Invoked(r, s, FALSE)]
      [] s.onFail = "warn" ->
            [r EXCEPT !.ip = @ + 1, !.calls = Invoked(r, s, FALSE)]
      [] s.onFail = "record" ->
            [r EXCEPT !.ip = @ + 1, !.calls = Invoked(r, s, FALSE),
                      !.results = Put(@, s.key, [error |-> err.message])]

Awaiting(c, op) ==
    /\ reqs[c].pc = "running"
    /\ reqs[c].ip <= Len(reqs[c].plan)
    /\ reqs[c].plan[reqs[c].ip].op = op

Step(c) == reqs[c].plan[reqs[c].ip]

\* what the three stores hold for uid when the request arrives
Snapshot(uid) ==
    [identity |-> uid \in DOMAIN auth,
     profile  |-> uid \in DOMAIN db,
     assets   |-> {a \in assets : IsPrefix(folderPath(uid) \o <<"/">>, a[1])},
     folder   |-> folderPath(uid) \in folders,
     disabled |-> uid \in DOMAIN auth /\ auth[uid].disabled,
     users    |-> DOMAIN auth,
     stored   |-> {}]

\* the assets the asset host holds for the ids of a public_ids array
StoredUnder(body) ==
    {a \in assets : body.isArray /\ \E i \in 1..Len(body.public_ids) :
                                       a[1] = body.public_ids[i]}

\* the request as the route handler is entered
Arrived(kind, uid, body) ==
    [Idle EXCEPT !.kind = kind, !.uid = uid, !.body = body,
                 !.pre = [Snapshot(uid) EXCEPT !.stored = StoredUnder(body)]]

Receive(c, kind, uid, body, early) ==
    /\ server.phase = "listening"
    /\ served < MaxRequests
    /\ reqs[c].pc \in {"idle", "done"}
    /\ served' = served + 1
    /\ reqs' = [reqs EXCEPT ![c] =
                   IF early = NoResponse
                   THEN Continued([Arrived(kind, uid, body) EXCEPT !.pc = "running"])
                   ELSE [Arrived(kind, uid, body) EXCEPT
                            !.pc = "done", !.res = early, !.sent = 1]]
    /\ UNCHANGED <<variant, server, auth, db, assets, folders, toggles>>

ReceiveDeleteUser(c) ==
    \E uid \in Uids : Receive(c, "DELETE /users/:uid", uid, EmptyBody, NoResponse)

ReceiveDisable(c) ==
    \E uid \in Uids : Receive(c, "POST /users/:uid/disable", uid, EmptyBody, NoResponse)

ReceiveEnable(c) ==
    \E uid \in Uids : Receive(c, "POST /users/:uid/enable", uid, EmptyBody, NoResponse)

\* index.js 200-364 has no such route
ReceiveDeleteAssets(c) ==
    /\ variant # "index_b"
    /\ \E body \in Bodies :
          Receive(c, "POST /delete-cloudinary-assets", null, body,
                  deleteAssetsEarly(variant, body))

\* request bodies of POST /delete-cloudinary-folder
FolderBodies ==
    {[EmptyBody EXCEPT !.folder = f] : f \in {null, folderPath(<<"a">>), <<"y">>}}

ReceiveDeleteFolder(c) ==
    /\ variant \in FolderRouteCopies
    /\ \E body \in FolderBodies :
          Receive(c, "POST /delete-cloudinary-folder", null, body, deleteFolderEarly(body))

\* request bodies of POST /users
UserBodies ==
    {[EmptyBody EXCEPT !.email = e, !.password = pw] :
        e \in {null, <<"e">>}, pw \in {null, <<"p">>}}

ReceiveCreateUser(c) ==
    \E body \in UserBodies :
        Receive(c, "POST /users", null, body, createUserEarly(body))

ReceiveListUsers(c) ==
    Receive(c, "GET /users", null, EmptyBody, NoResponse)

\* the ID token the identity platform issued to the signed-in user uid
TokenOf(uid) == <<"t">> \o uid

\* Authorization headers: none, a token without 'Bearer ', a token the
\* platform never issued, and the tokens of the two users
AuthHeaders ==
    {null, TokenOf(<<"a">>), Bearer \o <<"z">>}
    \cup {Bearer \o TokenOf(uid) : uid \in Uids}

\* X-Firebase-AppCheck headers: a token of the app and a forged one
AppCheckHeaders == {<<"k">>, <<"q">>}

\* the headers of a request to a client-facing route
ClientHeaders ==
    (AuthHeaders \X {null})
    \cup ({null, Bearer \o TokenOf(<<"a">>)} \X AppCheckHeaders)

\* { plan, value } of a request body
PlanUpdates ==
    {<<"plan1", Num(5)>>, <<"custom", Num(0)>>, <<"gold", Num(5)>>,
     <<"plan1", Num(-1)>>, <<"plan1", Infinity>>, <<"plan1", StringValue>>,
     <<"", Undefined>>}

InitRequests ==
    {[EmptyBody EXCEPT !.authorization = h[1], !.appcheck = h[2]] : h \in ClientHeaders}

UpgradeRequests ==
    {[EmptyBody EXCEPT !.authorization = h[1], !.appcheck = h[2],
                       !.plan = "plan1", !.value = Num(5)] : h \in ClientHeaders}
    \cup {[EmptyBody EXCEPT !.authorization = Bearer \o TokenOf(<<"a">>),
                            !.plan = u[1], !.value = u[2]] : u \in PlanUpdates}

\* only part_005 has the client-facing routes
ReceiveUserInit(c) ==
    /\ variant = "part_005"
    /\ \E body \in InitRequests :
          Receive(c, "POST /api/user/init", null, body, NoResponse)

ReceiveUpgrade(c) ==
    /\ variant = "part_005"
    /\ \E body \in UpgradeRequests :
          Receive(c, "POST /api/subscription/upgrade", null, body, NoResponse)

\* ------------------------------------------------- the external collaborators

Without(f, k) == [x \in DOMAIN f \ {k} |-> f[x]]

Last2(seq) == IF Len(seq) > 2 THEN SubSeq(seq, Len(seq) - 1, Len(seq)) ELSE seq

\* auth.listUsers(1000): the user records of the directory
CallListUsers(c) ==
    /\ Awaiting(c, "listUsers")
    /\ LET s == Step(c) IN
       \/ reqs' = [reqs EXCEPT ![c] = Fulfilled(@, s, auth)]
       \/ reqs' = [reqs EXCEPT ![c] = Rejected(@, s, ErrAuthInternal)]
    /\ UNCHANGED <<variant, server, auth, db, assets, folders, toggles, served>>

\* auth.createUser({ email, password, ... }): the directory picks the uid
CallCreateUser(c) ==
    /\ Awaiting(c, "createUser")
    /\ LET s == Step(c) IN
       \/ \E uid \in Uids \ DOMAIN auth :
             /\ auth' = [x \in DOMAIN auth \cup {uid} |->
                            IF x = uid
                            THEN [disabled |-> FALSE, providerData |-> <<"password">>]
                            ELSE auth[x]]
             /\ reqs' = [reqs EXCEPT ![c] =
                            Fulfilled(@, s, [uid |-> uid, email |-> s.arg,
                                             disabled |-> FALSE])]
       \/ /\ reqs' = [reqs EXCEPT ![c] = Rejected(@, s, ErrEmailExists)]
          /\ UNCHANGED auth
    /\ UNCHANGED <<variant, server, db, assets, folders, toggles, served>>

\* auth.deleteUser(uid)
CallDeleteUser(c) ==
    /\ Awaiting(c, "deleteUser")
    /\ LET s == Step(c) IN
       \/ /\ s.arg \in DOMAIN auth
          /\ auth' = Without(auth, s.arg)
          /\ toggles' = [toggles EXCEPT ![s.arg] = <<>>]
          /\ reqs' = [reqs EXCEPT ![c] = Fulfilled(@, s, TRUE)]
       \/ /\ reqs' = [reqs EXCEPT ![c] =
                         Rejected(@, s, IF s.arg \in DOMAIN auth
                                        THEN ErrAuthInternal ELSE ErrUserNotFound)]
          /\ UNCHANGED <<auth, toggles>>
    /\ UNCHANGED <<variant, server, db, assets, folders, served>>

\* auth.updateUser(uid, { disabled })
CallUpdateUser(c) ==
    /\ Awaiting(c, "updateUser")
    /\ LET s == Step(c) IN
       \/ /\ s.arg \in DOMAIN auth
          /\ auth' = [auth EXCEPT ![s.arg].disabled = s.val]
          /\ toggles' = [toggles EXCEPT ![s.arg] =
                            Last2(Append(@, IF reqs[c].kind = "POST /users/:uid/disable"
                                            THEN "disable" ELSE "enable"))]
          /\ reqs' = [reqs EXCEPT ![c] = Fulfilled(@, s, TRUE)]
       \/ /\ reqs' = [reqs EXCEPT ![c] =
                         Rejected(@, s, IF s.arg \in DOMAIN auth
                                        THEN ErrAuthInternal ELSE ErrUserNotFound)]
          /\ UNCHANGED <<auth, toggles>>
    /\ UNCHANGED <<variant, server, db, assets, folders, served>>

\* db.ref(`users/${uid}`).remove(): removing an absent path is fulfilled
CallRemove(c) ==
    /\ Awaiting(c, "remove")
    /\ LET s == Step(c) IN
       \/ /\ db' = Without(db, s.arg)
          /\ reqs' = [reqs EXCEPT ![c] = Fulfilled(@, s, TRUE)]
       \/ /\ reqs' = [reqs EXCEPT ![c] = Rejected(@, s, ErrDatabase)]
          /\ UNCHANGED db
    /\ UNCHANGED <<variant, server, auth, assets, folders, toggles, served>>

\* cloudinary.api.delete_resources(public_ids, { resource_type })
CallDeleteResources(c) ==
    /\ Awaiting(c, "delete_resources")
    /\ LET s == Step(c)
           ids == Range(s.arg)
       IN
       \/ /\ variant # "part_001"
          /\ assets' = assets \ {<<id, s.type>> : id \in ids}
          /\ reqs' = [reqs EXCEPT ![c] =
                         Fulfilled(@, s,
                             [deleted |-> [id \in ids |->
                                 IF <<id, s.type>> \in assets
                                 THEN "deleted" ELSE "not_found"]])]
       \/ /\ reqs' = [reqs EXCEPT ![c] =
                         Rejected(@, s, IF variant = "part_001" THEN ErrNotDefined
                                        ELSE ErrAssetHost)]
          /\ UNCHANGED assets
    /\ UNCHANGED <<variant, server, auth, db, folders, toggles, served>>

\* cloudinary.api.delete_resources_by_prefix(prefix, { resource_type })
CallDeleteResourcesByPrefix(c) ==
    /\ Awaiting(c, "delete_resources_by_prefix")
    /\ LET s == Step(c) IN
       \/ /\ assets' = {a \in assets : ~(a[2] = s.type /\ IsPrefix(s.arg, a[1]))}
          /\ reqs' = [reqs EXCEPT ![c] = Fulfilled(@, s, TRUE)]
       \/ /\ reqs' = [reqs EXCEPT ![c] = Rejected(@, s, ErrAssetHost)]
          /\ UNCHANGED assets
    /\ UNCHANGED <<variant, server, auth, db, folders, toggles, served>>

FolderHasAssets(path) == \E a \in assets : IsPrefix(path \o <<"/">>, a[1])

\* cloudinary.api.delete_folder(path): the folder must exist and be empty
CallDeleteFolder(c) ==
    /\ Awaiting(c, "delete_folder")
    /\ LET s == Step(c) IN
       \/ /\ s.arg \in folders
          /\ ~FolderHasAssets(s.arg)
          /\ folders' = folders \ {s.arg}
          /\ reqs' = [reqs EXCEPT ![c] = Fulfilled(@, s, TRUE)]
       \/ /\ reqs' = [reqs EXCEPT ![c] =
                         Rejected(@, s,
                             IF s.arg \notin folders THEN ErrFolderNotFound
                             ELSE IF FolderHasAssets(s.arg) THEN ErrFolderNotEmpty
                             ELSE ErrAssetHost)]
          /\ UNCHANGED folders
    /\ UNCHANGED <<variant, server, auth, db, assets, toggles, served>>

ErrAppCheck == [message |-> "app-check/invalid-argument"]

ErrIdToken == [message |-> "auth/argument-error"]

\* admin.appCheck().verifyToken(token): rejects a forged token
CallVerifyToken(c) ==
    /\ Awaiting(c, "verifyToken")
    /\ LET s == Step(c) IN
       \/ /\ s.arg = <<"k">>
          /\ reqs' = [reqs EXCEPT ![c] = Fulfilled(@, s, [app_id |-> "app"])]
       \/ reqs' = [reqs EXCEPT ![c] = Rejected(@, s, ErrAppCheck)]
    /\ UNCHANGED <<variant, server, auth, db, assets, folders, toggles, served>>

\* auth.verifyIdToken(idToken), without checkRevoked: the signature and the
\* expiry are verified, not the existence of the user; the decoded token
\* carries the uid it was issued for
CallVerifyIdToken(c) ==
    /\ Awaiting(c, "verifyIdToken")
    /\ LET s == Step(c) IN
       \/ \E uid \in Uids :
             /\ s.arg = TokenOf(uid)
             /\ reqs' = [reqs EXCEPT ![c] = Fulfilled(@, s, [uid |-> uid])]
       \/ reqs' = [reqs EXCEPT ![c] = Rejected(@, s, ErrIdToken)]
    /\ UNCHANGED <<variant, server, auth, db, assets, folders, toggles, served>>

\* the record at users/<uid>, or the empty record
RecordOf(uid) == IF uid \in DOMAIN db THEN db[uid] ELSE << >>

\* the store's clock, in requests received
Now == served

\* the written value with the timestamp sentinel replaced by the clock
Resolve(val) ==
    [k \in DOMAIN val |->
        IF k = "createdAt" /\ val[k] = ServerTimestamp THEN Now ELSE val[k]]

\* db.ref(`users/${uid}`).get(): snap.exists() and snap.val()
CallGet(c) ==
    /\ Awaiting(c, "get")
    /\ LET s == Step(c) IN
       \/ reqs' = [reqs EXCEPT ![c] =
                      Fulfilled(@, s, [exists |-> s.arg \in DOMAIN db,
                                       val |-> RecordOf(s.arg)])]
       \/ reqs' = [reqs EXCEPT ![c] = Rejected(@, s, ErrDatabase)]
    /\ UNCHANGED <<variant, server, auth, db, assets, folders, toggles, served>>

\* userRef.set(value): the record is replaced
CallSet(c) ==
    /\ Awaiting(c, "set")
    /\ LET s == Step(c) IN
       \/ /\ db' = Put(db, s.arg, Resolve(s.val))
          /\ reqs' = [reqs EXCEPT ![c] = Fulfilled(@, s, TRUE)]
       \/ /\ reqs' = [reqs EXCEPT ![c] = Rejected(@, s, ErrDatabase)]
          /\ UNCHANGED db
    /\ UNCHANGED <<variant, server, auth, assets, folders, toggles, served>>

\* userRef.update(updates): the named children are written, the others kept
CallUpdate(c) ==
    /\ Awaiting(c, "update")
    /\ LET s == Step(c)
           rec == RecordOf(s.arg)
           upd == Resolve(s.val)
       IN
       \/ /\ db' = Put(db, s.arg,
                        [k \in DOMAIN rec \cup DOMAIN upd |->
                            IF k \in DOMAIN upd THEN upd[k] ELSE rec[k]])
          /\ reqs' = [reqs EXCEPT ![c] = Fulfilled(@, s, TRUE)]
       \/ /\ reqs' = [reqs EXCEPT ![c] = Rejected(@, s, ErrDatabase)]
          /\ UNCHANGED db
    /\ UNCHANGED <<variant, server, auth, assets, folders, toggles, served>>

\* db.ref(`users/${uid}/subscription/${plan}`).set(value): the path is
\* created when the record or its subscription does not exist
CallSetTier(c) ==
    /\ Awaiting(c, "setTier")
    /\ LET s == Step(c)
           rec == RecordOf(s.arg)
           sub == IF "subscription" \in DOMAIN rec THEN rec["subscription"] ELSE << >>
       IN
       \/ /\ db' = Put(db, s.arg, Put(rec, "subscription", Put(sub, s.type, s.val)))
          /\ reqs' = [reqs EXCEPT ![c] = Fulfilled(@, s, TRUE)]
       \/ /\ reqs' = [reqs EXCEPT ![c] = Rejected(@, s, ErrDatabase)]
          /\ UNCHANGED db
    /\ UNCHANGED <<variant, server, auth, assets, folders, toggles, served>>

\* ---------------------------------------------------------------- responses

\* the number of responses a handler's exit sends
Sent(res) == IF res = NoResponse THEN 0 ELSE 1

\* the handler after its exit sent res (or nothing)
Responded(r, res) ==
    [r EXCEPT !.pc = "done", !.res = res, !.sent = @ + Sent(res)]

\* res.json / res.status(200).send at the end of the try block
Respond(c) ==
    /\ reqs[c].pc = "running"
    /\ reqs[c].ip > Len(reqs[c].plan)
    /\ reqs' = [reqs EXCEPT ![c] = Responded(@, Success(reqs[c]))]
    /\ UNCHANGED <<variant, server, auth, db, assets, folders, toggles, served>>

\* the response of the catch block
RespondCatch(c) ==
    /\ reqs[c].pc = "catch"
    /\ reqs' = [reqs EXCEPT ![c] = Responded(@, Catch(reqs[c]))]
    /\ UNCHANGED <<variant, server, auth, db, assets, folders, toggles, served>>

\* ------------------------------------------------------------ specification

\* the process after a start with the key file and the three variables present
Listening ==
    [phase |-> "listening", serviceAccountKey |-> TRUE,
     cloud_name |-> TRUE, api_key |-> TRUE, api_secret |-> TRUE]

ProfileRecord == [accountStatus |-> "active"]

UserAssets(uid) == {AssetId(uid)} \X ResourceTypes

Init ==
    /\ variant \in Variants
    /\ server = Listening
    \* one user, in any of the states the three stores can hold for it; the
    \* other user id is not in use
    /\ \E present \in SUBSET {<<"a">>} :
          auth \in [present -> [disabled : BOOLEAN, providerData : {<<"password">>}]]
    /\ \E present \in SUBSET {<<"a">>} : db = [uid \in present |-> ProfileRecord]
    /\ assets \in SUBSET UserAssets(<<"a">>)
    /\ folders \in SUBSET {folderPath(<<"a">>)}
    /\ assets # {} => folderPath(<<"a">>) \in folders
    /\ toggles = [uid \in Uids |-> <<>>]
    /\ served = 0
    /\ reqs = [c \in Conns |-> IF c = "c1" THEN Idle ELSE Closed]

Next ==
    \E c \in Conns :
        \/ ReceiveDeleteUser(c)
        \/ ReceiveDisable(c)
        \/ ReceiveEnable(c)
        \/ ReceiveDeleteAssets(c)
        \/ ReceiveDeleteFolder(c)
        \/ ReceiveCreateUser(c)
        \/ ReceiveListUsers(c)
        \/ CallListUsers(c)
        \/ CallCreateUser(c)
        \/ CallDeleteUser(c)
        \/ CallUpdateUser(c)
        \/ CallRemove(c)
        \/ CallDeleteResources(c)
        \/ CallDeleteResourcesByPrefix(c)
        \/ CallDeleteFolder(c)
        \/ Respond(c)
        \/ RespondCatch(c)

Spec == Init /\ [][Next]_vars

\* ------------------------------------------------------------------ startup

\* the copies whose cloudinary block throws when a variable is not set
ConfigCheckingCopies == {"part_003", "part_004", "part_005"}

\* the copies with no cloudinary block at all
NoCloudinaryBlock == {"index_b", "part_001"}

\* try { require("./serviceAccountKey.json"); admin.initializeApp(...) }
\* catch { process.exit(1) }
InitializeFirebase ==
    /\ server.phase = "firebase"
    /\ \/ /\ server.serviceAccountKey
          /\ server' = [server EXCEPT !.phase = IF variant \in NoCloudinaryBlock
                                                THEN "listen" ELSE "cloudinary"]
       \/ /\ ~server.serviceAccountKey
          /\ server' = [server EXCEPT !.phase = "exited"]
    /\ UNCHANGED <<variant, auth, db, assets, folders, toggles, served, reqs>>

\* if (!config().cloud_name || !config().api_key || !config().api_secret) throw
\* (index.js 25-35 and part_000 call cloudinary.config and test nothing)
CredentialsMissing(v, env) ==
    v \in ConfigCheckingCopies
    /\ (~env.cloud_name \/ ~env.api_key \/ ~env.api_secret)

\* try { cloudinary.config({...}); ... } catch { process.exit(1) }
ConfigureCloudinary ==
    /\ server.phase = "cloudinary"
    /\ \/ /\ ~CredentialsMissing(variant, server)
          /\ server' = [server EXCEPT !.phase = "listen"]
       \/ /\ CredentialsMissing(variant, server)
          /\ server' = [server EXCEPT !.phase = "exited"]
    /\ UNCHANGED <<variant, auth, db, assets, folders, toggles, served, reqs>>

\* app.listen(PORT, "0.0.0.0")
Listen ==
    /\ server.phase = "listen"
    /\ server' = [server EXCEPT !.phase = "listening"]
    /\ UNCHANGED <<variant, auth, db, assets, folders, toggles, served, reqs>>

\* provider lists of a user record
ProviderLists ==
    {<<>>, <<"password">>, <<"google.com">>, <<"password", "google.com">>}

\* a process about to start, with any key file and environment, over a
\* directory of one or two users
InitServer ==
    /\ variant \in Variants
    /\ server \in [phase : {"firebase"}, serviceAccountKey : BOOLEAN,
                    cloud_name : BOOLEAN, api_key : BOOLEAN, api_secret : BOOLEAN]
    /\ \E present \in {{<<"a">>}, Uids} :
          /\ auth \in [present -> [disabled : {FALSE}, providerData : ProviderLists]]
          /\ db = [uid \in present |-> ProfileRecord]
    /\ \A uid \in DOMAIN auth \ {<<"a">>} : auth[uid].providerData = <<>>
    /\ assets = {<<AssetId(<<"a">>), "image">>}
    /\ folders = {folderPath(<<"a">>)}
    /\ toggles = [uid \in Uids |-> <<>>]
    /\ served = 0
    /\ reqs = [c \in Conns |-> IF c = "c1" THEN Idle ELSE Closed]

NextServer ==
    \/ InitializeFirebase
    \/ ConfigureCloudinary
    \/ Listen
    \/ Next

SpecServer == InitServer /\ [][NextServer]_vars

\* ---------------------------------------------------------------- concurrency

\* two users with an identity record, a profile record and one image each,
\* and two connections, so that two requests are in flight at once
InitConcurrent ==
    /\ variant \in Variants
    /\ server = Listening
    /\ auth = [uid \in Uids |-> [disabled |-> FALSE, providerData |-> <<"password">>]]
    /\ db = [uid \in Uids |-> ProfileRecord]
    /\ assets = {<<AssetId(uid), "image">> : uid \in Uids}
    /\ folders = {folderPath(uid) : uid \in Uids}
    /\ toggles = [uid \in Uids |-> <<>>]
    /\ served = 0
    /\ reqs = [c \in Conns |-> Idle]

SpecConcurrent == InitConcurrent /\ [][Next]_vars

\* ------------------------------------------------------- client-facing routes

\* profile records a user can have before a request arrives: written by an
\* earlier init, by an earlier upgrade alone, by the console, or complete
ClientRecords ==
    {[accountStatus |-> "suspended"],
     [subscription |-> [p \in {"plan1"} |-> Num(5)]],
     [accountStatus |-> "active", subscription |-> [ZeroTiers EXCEPT !["plan2"] = Num(7)],
      createdAt |-> 0]}

\* every copy, one user with an identity record and an image, with or without
\* a profile record, one connection
InitClient ==
    /\ variant \in Variants
    /\ server = Listening
    /\ auth = [uid \in {<<"a">>} |-> [disabled |-> FALSE, providerData |-> <<"password">>]]
    /\ \/ db = << >>
       \/ \E rec \in ClientRecords : db = [uid \in {<<"a">>} |-> rec]
    /\ assets = {<<AssetId(<<"a">>), "image">>}
    /\ folders = {folderPath(<<"a">>)}
    /\ toggles = [uid \in Uids |-> <<>>]
    /\ served = 0
    /\ reqs = [c \in Conns |-> IF c = "c1" THEN Idle ELSE Closed]

ClientCalls(c) ==
    \/ ReceiveUserInit(c)
    \/ ReceiveUpgrade(c)
    \/ CallVerifyToken(c)
    \/ CallVerifyIdToken(c)
    \/ CallGet(c)
    \/ CallSet(c)
    \/ CallUpdate(c)
    \/ CallSetTier(c)

NextClient ==
    \/ Next
    \/ \E c \in Conns : ClientCalls(c)

SpecClient == InitClient /\ [][NextClient]_vars

\* part_005 with two connections: a client that initializes or upgrades
\* while the administrator deletes the user; the user has no profile record
\* or one without a subscription
InitRace ==
    /\ variant = "part_005"
    /\ server = Listening
    /\ auth = [uid \in {<<"a">>} |-> [disabled |-> FALSE, providerData |-> <<"password">>]]
    /\ \/ db = << >>
       \/ db = [uid \in {<<"a">>} |-> [accountStatus |-> "suspended"]]
    /\ assets = {<<AssetId(<<"a">>), "image">>}
    /\ folders = {folderPath(<<"a">>)}
    /\ toggles = [uid \in Uids |-> <<>>]
    /\ served = 0
    /\ reqs = [c \in Conns |-> Idle]

NextRace ==
    \E c \in Conns :
        \/ ReceiveDeleteUser(c)
        \/ CallDeleteResourcesByPrefix(c)
        \/ CallDeleteFolder(c)
        \/ CallRemove(c)
        \/ CallDeleteUser(c)
        \/ ClientCalls(c)
        \/ Respond(c)
        \/ RespondCatch(c)

SpecRace == InitRace /\ [][NextRace]_vars

\* ------------------------------------------------------------------- claims

AssetOps == {"delete_resources", "delete_resources_by_prefix", "delete_folder"}

IsDeleteUser(r) == r.kind = "DELETE /users/:uid"

IsDeleteAssets(r) == r.kind = "POST /delete-cloudinary-assets"

Attempted(r, op) == \E i \in 1..Len(r.calls) : r.calls[i].op = op

FulfilledCall(r, op) == \E i \in 1..Len(r.calls) : r.calls[i].op = op /\ r.calls[i].ok

RejectedCall(r, op) == \E i \in 1..Len(r.calls) : r.calls[i].op = op /\ ~r.calls[i].ok

AssetCallRejected(r) ==
    \E i \in 1..Len(r.calls) : r.calls[i].op \in AssetOps /\ ~r.calls[i].ok

IsSuccess(res) ==
    res.status = 200 /\ "success" \in DOMAIN res.body /\ res.body.success

IsFailure(res) ==
    res.status = 500 /\ "error" \in DOMAIN res.body /\ "success" \notin DOMAIN res.body

\* C1: in DELETE /users/:uid a rejected asset-host call never aborts the
\* operation: the profile removal is still attempted, the identity deletion is
\* attempted after it, and when both are fulfilled the response is the success
\* result and both records are gone.
C1_AssetFailureNeverAborts ==
    \A c \in Conns :
        LET r == reqs[c] IN
        (IsDeleteUser(r) /\ r.pc = "done" /\ AssetCallRejected(r)) =>
            /\ Attempted(r, "remove")
            /\ FulfilledCall(r, "remove") => Attempted(r, "deleteUser")
            /\ (FulfilledCall(r, "remove") /\ FulfilledCall(r, "deleteUser")) =>
                  /\ IsSuccess(r.res)
                  /\ r.uid \notin DOMAIN db
                  /\ r.uid \notin DOMAIN auth

\* C2: in DELETE /users/:uid the calls run in the order asset cleanup, profile
\* removal, identity deletion: the identity deletion is invoked only after the
\* profile removal was fulfilled, and no asset call follows the profile removal.
C2_DeprovisioningOrder ==
    \A c \in Conns :
        LET r == reqs[c] IN
        IsDeleteUser(r) =>
            \A i \in 1..Len(r.calls) :
                /\ r.calls[i].op = "deleteUser" =>
                      \E j \in 1..(i - 1) : r.calls[j].op = "remove" /\ r.calls[j].ok
                /\ r.calls[i].op \in AssetOps =>
                      \A j \in 1..(i - 1) : r.calls[j].op \in AssetOps

\* C3: in DELETE /users/:uid, when the profile removal is rejected the identity
\* deletion is not attempted, the identity record is as it was when the request
\* arrived, and the response is a 500 error carrying the record store's message.
C3_ProfileFailureAborts ==
    \A c \in Conns :
        LET r == reqs[c] IN
        (IsDeleteUser(r) /\ RejectedCall(r, "remove")) =>
            /\ ~Attempted(r, "deleteUser")
            /\ r.pre.identity <=> r.uid \in DOMAIN auth
            /\ r.pc = "done" =>
                  /\ IsFailure(r.res)
                  /\ r.res.body.details = ErrDatabase.message

C5_SuccessMeansAbsentEverywhere ==
    \A c \in Conns :
        LET r == reqs[c] IN
        (/\ IsDeleteUser(r) /\ r.pc = "done" /\ IsSuccess(r.res)
         /\ r.pre.identity /\ r.pre.profile /\ r.pre.assets # {}) =>
            /\ r.uid \notin DOMAIN auth
            /\ r.uid \notin DOMAIN db
            /\ Snapshot(r.uid).assets = {}
            /\ ~Snapshot(r.uid).folder

AlreadyDeprovisioned(pre) ==
    ~pre.identity /\ ~pre.profile /\ pre.assets = {} /\ ~pre.folder

\* C6: DELETE /users/:uid on an id that is absent from all three stores is not
\* failed by the asset step (after a rejected asset call the profile removal is
\* still attempted), and the response is an error result, never success.
C6_ReinvokeSurfacesNotFound ==
    \A c \in Conns :
        LET r == reqs[c] IN
        (IsDeleteUser(r) /\ r.pc = "done" /\ AlreadyDeprovisioned(r.pre)) =>
            /\ AssetCallRejected(r) => Attempted(r, "remove")
            /\ IsFailure(r.res)

\* C7: for every existing user the disabled flag is the one of the last
\* fulfilled toggle: true after disable, false after enable, whatever the flag
\* was before and whatever toggle came before.
C7_LastToggleWins ==
    \A uid \in DOMAIN auth :
        toggles[uid] # <<>> =>
            auth[uid].disabled = (toggles[uid][Len(toggles[uid])] = "disable")

\* C7 witness: disable then enable were both fulfilled for a user, the enable
\* request was answered with its confirmation, and the flag is false.
C7_Witness ==
    \E c \in Conns :
        LET r == reqs[c] IN
        /\ r.kind = "POST /users/:uid/enable" /\ r.pc = "done"
        /\ r.res = enableSuccess(r.uid)
        /\ r.uid \in DOMAIN auth
        /\ toggles[r.uid] = <<"disable", "enable">>
        /\ ~auth[r.uid].disabled

\* the copies whose handler reads public_ids
IdListMode(v) == v \in {"index_a", "part_000", "part_003", "part_004"}

\* the copies whose handler reads artworkUrl and audioUrl
UrlMode(v) == v \in {"part_001", "part_005"}

TypesAttempted(r) ==
    {r.calls[i].type : i \in {j \in 1..Len(r.calls) : r.calls[j].op = "delete_resources"}}

\* C8: POST /delete-cloudinary-assets with a non-empty public_ids list attempts
\* the deletion for image, video and raw whether or not an earlier one was
\* rejected, and responds 200.
C8_AllTypesAttempted ==
    \A c \in Conns :
        LET r == reqs[c] IN
        (/\ IsDeleteAssets(r) /\ r.pc = "done"
         /\ IdListMode(variant) /\ r.body.isArray /\ Len(r.body.public_ids) > 0) =>
            /\ TypesAttempted(r) = ResourceTypes
            /\ r.res.status = 200

UsableIds(v, body) ==
    IF UrlMode(v) THEN Len(urlPublicIds(v, body)) > 0
    ELSE body.isArray /\ Len(body.public_ids) > 0

\* the keys the details map is said to have
ExpectedKeys(v, body) ==
    IF UrlMode(v)
    THEN {k \in {"artwork", "audio"} :
             Truthy(extractPublicIdFromUrl(v, IF k = "artwork" THEN body.artworkUrl
                                              ELSE body.audioUrl))}
    ELSE ResourceTypes

\* C9: every response of POST /delete-cloudinary-assets to a request with
\* usable ids is a 200 whose details map has one entry per attempted resource
\* type (id list) or per role (URLs), each a deletion outcome or an error string.
C9_DetailsPerAttempt ==
    \A c \in Conns :
        LET r == reqs[c] IN
        (IsDeleteAssets(r) /\ r.pc = "done" /\ UsableIds(variant, r.body)) =>
            /\ r.res.status = 200
            /\ "details" \in DOMAIN r.res.body
            /\ DOMAIN r.res.body.details = ExpectedKeys(variant, r.body)
            /\ \A k \in DOMAIN r.res.body.details :
                  \/ "deleted" \in DOMAIN r.res.body.details[k]
                  \/ "error" \in DOMAIN r.res.body.details[k]

\* C10: in POST /delete-cloudinary-assets a rejected folder deletion does not
\* change the response: it is the 200 sent when the folder deletion is fulfilled.
C10_FolderFailureIgnored ==
    \A c \in Conns :
        LET r == reqs[c] IN
        (IsDeleteAssets(r) /\ r.pc = "done" /\ RejectedCall(r, "delete_folder")) =>
            r.res = deleteAssetsSuccess(variant, r.results)

\* the id cut before its last "/"
TruncatedAtLastSeparator(id) ==
    LET k == CHOOSE i \in 1..Len(id) : id[i] = "/" /\ \A j \in (i + 1)..Len(id) : id[j] # "/"
    IN  SubSeq(id, 1, k - 1)

\* C11: in POST /delete-cloudinary-assets with an id list, every folder deletion
\* call names the first id cut before its last "/", and when the first id has
\* no "/" no folder deletion call is made.
C11_ParentFolderDerivation ==
    \A c \in Conns :
        LET r == reqs[c] IN
        (IsDeleteAssets(r) /\ IdListMode(variant) /\ UsableIds(variant, r.body)) =>
            LET firstId == r.body.public_ids[1] IN
            IF Includes(firstId, "/")
            THEN \A i \in 1..Len(r.calls) :
                     r.calls[i].op = "delete_folder" =>
                         r.calls[i].arg = TruncatedAtLastSeparator(firstId)
            ELSE ~Attempted(r, "delete_folder")

\* the id a URL stands for: the path after "upload/" and the version segment,
\* without the extension; null for any other text
ExpectedPublicId(url) ==
    LET ids == {id \in {AssetId(uid) : uid \in Uids} : url \in {UrlOf(id), PlainUrlOf(id)}}
    IN  IF ids = {} THEN null ELSE CHOOSE id \in ids : TRUE

\* C12: extractPublicIdFromUrl gives the path after "upload/" and the optional
\* version segment without the extension, and null for an absent or malformed
\* URL; only extracted ids are passed to a deletion call, and a request none
\* of whose calls was rejected is answered 200.
C12_ExtractPublicId ==
    \A c \in Conns :
        LET r == reqs[c] IN
        (IsDeleteAssets(r) /\ UrlMode(variant)) =>
            /\ extractPublicIdFromUrl(variant, r.body.artworkUrl)
                   = ExpectedPublicId(r.body.artworkUrl)
            /\ extractPublicIdFromUrl(variant, r.body.audioUrl)
                   = ExpectedPublicId(r.body.audioUrl)
            /\ \A i \in 1..Len(r.calls) :
                   Range(r.calls[i].arg) \subseteq
                       {ExpectedPublicId(r.body.artworkUrl),
                        ExpectedPublicId(r.body.audioUrl)} \ {null}
            /\ (r.pc = "done" /\ \A i \in 1..Len(r.calls) : r.calls[i].ok) =>
                   r.res.status = 200

\* C13: POST /delete-cloudinary-assets whose body yields no usable id makes no
\* asset-host call and responds 400; a 500 is sent only after a call was rejected.
C13_NoUsableIdsIs400 ==
    \A c \in Conns :
        LET r == reqs[c] IN
        IsDeleteAssets(r) =>
            /\ ~UsableIds(variant, r.body) =>
                   /\ r.calls = <<>>
                   /\ r.pc = "done" => r.res.status = 400
            /\ (r.pc = "done" /\ r.res.status = 500) =>
                   \E i \in 1..Len(r.calls) : ~r.calls[i].ok

IsDeleteFolder(r) == r.kind = "POST /delete-cloudinary-folder"

\* C14 as stated: every response of POST /delete-cloudinary-folder is a 200,
\* for every request body.
C14_AlwaysResponds200 ==
    \A c \in Conns :
        LET r == reqs[c] IN
        (IsDeleteFolder(r) /\ r.pc = "done") => r.res.status = 200

\* C14: POST /delete-cloudinary-folder with a folder in its body responds 200
\* whatever the delete-by-prefix and delete-folder calls did; without a folder
\* it responds 400 and makes no asset-host call.
C14_FolderCleanupResponds200 ==
    \A c \in Conns :
        LET r == reqs[c] IN
        (IsDeleteFolder(r) /\ r.pc = "done") =>
            IF Truthy(r.body.folder)
            THEN r.res.status = 200
            ELSE r.res.status = 400 /\ r.calls = <<>>

\* C14 witness: the prefix deletion was fulfilled, the folder deletion was
\* rejected, and the response is 200.
C14_Witness ==
    \E c \in Conns :
        LET r == reqs[c] IN
        /\ IsDeleteFolder(r) /\ r.pc = "done"
        /\ Len(r.calls) = 2
        /\ r.calls[1].ok /\ ~r.calls[2].ok
        /\ r.res = deleteFolderCatch(r.err)

IsCreateUser(r) == r.kind = "POST /users"

\* C15: POST /users with email or password missing is answered 400 with the
\* message naming the required fields before any call: createUser is not
\* invoked and the identity directory holds the users it held on arrival.
C15_MissingFieldHasNoEffect ==
    \A c \in Conns :
        LET r == reqs[c] IN
        (IsCreateUser(r) /\ (~Truthy(r.body.email) \/ ~Truthy(r.body.password))) =>
            /\ r.pc = "done"
            /\ r.calls = <<>>
            /\ r.res.status = 400
            /\ r.res.body = [error |-> "Email and password are required fields."]
            /\ DOMAIN auth = r.pre.users

\* C15 witness: a body with an email and no password was answered 400 while
\* the directory has room for a new user.
C15_Witness ==
    \E c \in Conns :
        LET r == reqs[c] IN
        /\ IsCreateUser(r) /\ r.pc = "done"
        /\ Truthy(r.body.email) /\ ~Truthy(r.body.password)
        /\ r.res.status = 400
        /\ Uids \ DOMAIN auth # {}

IsToggle(r) == r.kind \in {"POST /users/:uid/disable", "POST /users/:uid/enable"}

\* C16: disable and enable each make one updateUser call for the user of the
\* request; when it is fulfilled the flag has the new value and the response
\* is the confirmation naming the user and the new state; when it is rejected
\* the response is a 500 and the user's record is as it was on arrival.
C16_ToggleOutcome ==
    \A c \in Conns :
        LET r == reqs[c]
            disabling == r.kind = "POST /users/:uid/disable"
        IN
        IsToggle(r) =>
            /\ Len(r.calls) <= 1
            /\ \A i \in 1..Len(r.calls) :
                   r.calls[i].op = "updateUser" /\ r.calls[i].arg = r.uid
            /\ r.pc = "done" =>
                   /\ Len(r.calls) = 1
                   /\ IF r.calls[1].ok
                      THEN /\ r.res.status = 200
                           /\ r.res.body.message =
                                  <<"User", r.uid, IF disabling THEN "has been disabled."
                                                   ELSE "has been enabled.">>
                           /\ r.uid \in DOMAIN auth
                           /\ auth[r.uid].disabled = disabling
                      ELSE /\ r.res.status = 500
                           /\ "success" \notin DOMAIN r.res.body
                           /\ r.uid \in DOMAIN auth <=> r.pre.identity
                           /\ r.uid \in DOMAIN auth =>
                                  auth[r.uid].disabled = r.pre.disabled

\* C16 witness: a disable request for an enabled user was rejected by the
\* identity directory, 500 was sent and the user is still enabled.
C16_Witness ==
    \E c \in Conns :
        LET r == reqs[c] IN
        /\ r.kind = "POST /users/:uid/disable" /\ r.pc = "done"
        /\ r.pre.identity /\ ~r.pre.disabled
        /\ Len(r.calls) = 1 /\ ~r.calls[1].ok
        /\ r.res = disableCatch(ErrAuthInternal)
        /\ ~auth[r.uid].disabled

IsListUsers(r) == r.kind = "GET /users"

C20_ListensOnlyWhenConfigured ==
    (server.phase = "listening" \/ served > 0) =>
        /\ server.serviceAccountKey
        /\ server.cloud_name /\ server.api_key /\ server.api_secret

\* the steps of the handler that a call of the request's history may be
SameCall(call, step) ==
    call.op = step.op /\ call.arg = step.arg /\ call.type = step.type

StepsOf(r, call) == {k \in 1..Len(Plan(r)) : SameCall(call, Plan(r)[k])}

\* C18: within one request every call made is a call of the handler, made at
\* most once and in the handler's order, whether it was fulfilled or
\* rejected: a later call is always a later step, so no call is attempted a
\* second time.
C18_NoRetry ==
    \A c \in Conns :
        LET r == reqs[c] IN
        /\ \A i \in 1..Len(r.calls) : StepsOf(r, r.calls[i]) # {}
        /\ \A i, j \in 1..Len(r.calls) :
               i < j => \A ki \in StepsOf(r, r.calls[i]), kj \in StepsOf(r, r.calls[j]) :
                            ki < kj

\* C18 witness: a request whose first call was rejected and tolerated went on
\* to its next call and was answered.
C18_Witness ==
    \E c \in Conns :
        LET r == reqs[c] IN
        /\ r.pc = "done"
        /\ Len(r.calls) >= 2
        /\ ~r.calls[1].ok
        /\ r.calls[2].ok

IsUserScoped(r) == IsDeleteUser(r) \/ IsToggle(r)

\* what the three stores hold for a user id
EntriesOf(uid) ==
    [identity |-> IF uid \in DOMAIN auth THEN <<auth[uid]>> ELSE <<>>,
     profile  |-> IF uid \in DOMAIN db THEN <<db[uid]>> ELSE <<>>,
     assets   |-> {a \in assets : IsPrefix(folderPath(uid) \o <<"/">>, a[1])},
     folder   |-> folderPath(uid) \in folders]

\* C19: a step of a DELETE /users/:uid, disable or enable request for one
\* user leaves the identity record, the profile record, the assets and the
\* folder of every other user as they were, whatever else is in flight.
C19_OtherUsersUntouched ==
    [][\A c \in Conns :
          (reqs'[c] # reqs[c] /\ IsUserScoped(reqs[c])) =>
              \A other \in Uids \ {reqs[c].uid} : EntriesOf(other)' = EntriesOf(other)]_vars

IsClientRoute(r) == r.kind \in {"POST /api/user/init", "POST /api/subscription/upgrade"}

HasField(res, f) == f \in DOMAIN res.body

\* C21 as stated: every response of every route has a message field or an
\* error field in its body.
C21_MessageOrErrorField ==
    \A c \in Conns :
        LET r == reqs[c] IN
        r.pc = "done" => (HasField(r.res, "message") \/ HasField(r.res, "error"))

\* C21: every response with a status of 400 or more has an error field, and
\* every other response has a message field, except those of GET /users (the
\* list of users), POST /users (the created record) and the two client-facing
\* routes ({ ok: true }), which have neither.
C21_ErrorFieldOrMessageByRoute ==
    \A c \in Conns :
        LET r == reqs[c] IN
        r.pc = "done" =>
            IF r.res.status >= 400 THEN HasField(r.res, "error")
            ELSE IF IsListUsers(r)
                 THEN DOMAIN r.res.body = {"users"}
            ELSE IF IsCreateUser(r)
                 THEN HasField(r.res, "uid") /\ ~HasField(r.res, "message")
            ELSE IF IsClientRoute(r)
                 THEN r.res.body = [ok |-> TRUE]
            ELSE HasField(r.res, "message") /\ ~HasField(r.res, "error")

\* C21 witness: an upgrade whose write was rejected was answered 500 with an
\* error field, after the token was verified.
C21_Witness ==
    \E c \in Conns :
        LET r == reqs[c] IN
        /\ r.kind = "POST /api/subscription/upgrade" /\ r.pc = "done"
        /\ RejectedCall(r, "setTier")
        /\ r.res.status = 500
        /\ HasField(r.res, "error")

\* C22: in DELETE /users/:uid, when one asset-host call of the cleanup step
\* was rejected, every asset-host call of the step has still been attempted
\* by the time the response is sent.
C22_SiblingCallsStillAttempted ==
    \A c \in Conns :
        LET r == reqs[c] IN
        (IsDeleteUser(r) /\ r.pc = "done" /\ AssetCallRejected(r)) =>
            \A k \in 1..Len(Plan(r)) :
                Plan(r)[k].op \in AssetOps =>
                    \E i \in 1..Len(r.calls) : SameCall(r.calls[i], Plan(r)[k])

\* the details entry of a class says the id was deleted / was not found
Reports(details, type, id, outcome) ==
    /\ type \in DOMAIN details
    /\ "deleted" \in DOMAIN details[type]
    /\ id \in DOMAIN details[type].deleted
    /\ details[type].deleted[id] = outcome

\* C23: POST /delete-cloudinary-assets for one id stored under image only,
\* with the deletion attempted and answered for image, video and raw: the
\* response is 200 and its details map reports the deletion for exactly one
\* class, image, and not-found for the other two.
C23_ExactlyOneClassDeletes ==
    \A c \in Conns :
        LET r == reqs[c] IN
        (/\ IsDeleteAssets(r) /\ r.pc = "done"
         /\ r.body.isArray /\ Len(r.body.public_ids) = 1
         /\ r.pre.stored = {<<r.body.public_ids[1], "image">>}
         /\ TypesAttempted(r) = ResourceTypes
         /\ ~RejectedCall(r, "delete_resources")) =>
            LET id == r.body.public_ids[1] IN
            /\ r.res.status = 200
            /\ HasField(r.res, "details")
            /\ Reports(r.res.body.details, "image", id, "deleted")
            /\ Reports(r.res.body.details, "video", id, "not_found")
            /\ Reports(r.res.body.details, "raw", id, "not_found")

\* C25: DELETE /users/:uid answers success only when, in that request, the
\* profile removal and the identity deletion were both invoked and fulfilled.
C25_SuccessOnlyAfterBothDeletions ==
    \A c \in Conns :
        LET r == reqs[c] IN
        (IsDeleteUser(r) /\ r.pc = "done" /\ IsSuccess(r.res)) =>
            /\ FulfilledCall(r, "remove")
            /\ FulfilledCall(r, "deleteUser")

IsUserInit(r) == r.kind = "POST /api/user/init"

IsUpgrade(r) == r.kind = "POST /api/subscription/upgrade"

IsOk(res) == res.status = 200 /\ res.body = [ok |-> TRUE]

DbOps == {"get", "set", "update", "setTier", "remove"}

DbWrites == {"set", "update", "setTier", "remove"}

ServerKeys == {"accountStatus", "subscription"}

\* C24: with requests handled one at a time, POST /api/user/init answered
\* { ok: true } sets the record (accountStatus active, four tiers 0,
\* createdAt) only when it read no record; when it read one, the record keeps
\* every value it had and gains accountStatus or subscription only where the
\* key was missing; a record that has both keys, as after a first init, is
\* not written at all.
C24_InitAddsOnlyMissing ==
    \A c \in Conns :
        LET r == reqs[c] IN
        (IsUserInit(r) /\ r.pc = "done" /\ IsOk(r.res)) =>
            LET uid  == r.results["user"].uid
                snap == r.results["snap"]
            IN
            /\ uid \in DOMAIN db
            /\ \A i \in 1..Len(r.calls) : r.calls[i].op = "set" => ~snap.exists
            /\ IF ~snap.exists
               THEN /\ DOMAIN db[uid] = ServerKeys \cup {"createdAt"}
                    /\ db[uid]["accountStatus"] = "active"
                    /\ db[uid]["subscription"] = [p \in allowedPlans |-> Num(0)]
                    /\ db[uid]["createdAt"] = served
               ELSE /\ DOMAIN db[uid] = DOMAIN snap.val \cup ServerKeys
                    /\ \A k \in DOMAIN snap.val : db[uid][k] = snap.val[k]
                    /\ "accountStatus" \notin DOMAIN snap.val =>
                           db[uid]["accountStatus"] = "active"
                    /\ "subscription" \notin DOMAIN snap.val =>
                           db[uid]["subscription"] = [p \in allowedPlans |-> Num(0)]
                    /\ ServerKeys \subseteq DOMAIN snap.val =>
                           \A i \in 1..Len(r.calls) : r.calls[i].op \notin DbWrites

\* C24 witness: a second init read the record the first init had created and
\* left it as it was.
C24_Witness ==
    \E c \in Conns :
        LET r == reqs[c] IN
        /\ IsUserInit(r) /\ r.pc = "done" /\ IsOk(r.res)
        /\ served = 2
        /\ r.results["snap"].exists
        /\ "createdAt" \in DOMAIN r.results["snap"].val
        /\ r.results["snap"].val["createdAt"] = 1
        /\ db[r.results["user"].uid] = r.results["snap"].val

SameUser(r, uid) == "user" \in DOMAIN r.results /\ r.results["user"].uid = uid

\* C26: when DELETE /users/:uid and POST /api/user/init for the same user
\* have both answered success, in any interleaving in which init verified its
\* token and read the profile record before the deletion removed it, and the
\* identity record is absent, there is no profile record at users/<uid>.
C26_InitNeverRecreates ==
    \A c1, c2 \in Conns :
        LET del  == reqs[c1]
            init == reqs[c2]
        IN
        (/\ IsDeleteUser(del) /\ del.pc = "done" /\ IsSuccess(del.res)
         /\ IsUserInit(init) /\ init.pc = "done" /\ IsOk(init.res)
         /\ SameUser(init, del.uid)
         /\ init.results["snap"].exists
         /\ del.uid \notin DOMAIN auth) =>
            del.uid \notin DOMAIN db

\* C27: when POST /api/user/init and POST /api/subscription/upgrade for the
\* same user have both finished, in any interleaving, and the upgrade answered
\* { ok: true }, the stored tier is the value the upgrade wrote.
C27_UpgradeSurvivesInit ==
    \A c1, c2 \in Conns :
        LET init == reqs[c1]
            upg  == reqs[c2]
        IN
        (/\ IsUserInit(init) /\ init.pc = "done"
         /\ IsUpgrade(upg) /\ upg.pc = "done" /\ IsOk(upg.res)
         /\ SameUser(init, upg.results["user"].uid)) =>
            LET uid == upg.results["user"].uid IN
            /\ uid \in DOMAIN db
            /\ "subscription" \in DOMAIN db[uid]
            /\ upg.body.plan \in DOMAIN db[uid]["subscription"]
            /\ db[uid]["subscription"][upg.body.plan] = upg.body.value

\* C28: the client-facing routes call the record store only after the
\* verifyIdToken of the request's Bearer token was fulfilled, and only for the
\* uid that token was issued for; without a Bearer token, or when the token
\* is rejected, the response is 401 and the record store is not called; an
\* absent or rejected App Check token never produces a failure response.
C28_StoreOnlyForVerifiedUid ==
    \A c \in Conns :
        LET r == reqs[c] IN
        IsClientRoute(r) =>
            /\ \A i \in 1..Len(r.calls) :
                   r.calls[i].op \in DbOps =>
                       \E j \in 1..(i - 1) :
                           /\ r.calls[j].op = "verifyIdToken" /\ r.calls[j].ok
                           /\ r.body.authorization = Bearer \o r.calls[j].arg
                           /\ r.calls[j].arg = TokenOf(r.calls[i].arg)
            /\ (r.pc = "done" /\ ~FulfilledCall(r, "verifyIdToken")) =>
                   /\ r.res.status = 401
                   /\ \A i \in 1..Len(r.calls) : r.calls[i].op \notin DbOps
            /\ (/\ r.pc = "done" /\ FulfilledCall(r, "verifyIdToken")
                /\ \A i \in 1..Len(r.calls) :
                       r.calls[i].op \in DbOps => r.calls[i].ok) =>
                   r.res.status \in {200, 400}

\* C28 witness: the App Check token was rejected, the ID token verified, and
\* init read and wrote users/<uid> and answered { ok: true }.
C28_Witness ==
    \E c \in Conns :
        LET r == reqs[c] IN
        /\ IsUserInit(r) /\ r.pc = "done" /\ IsOk(r.res)
        /\ RejectedCall(r, "verifyToken")
        /\ FulfilledCall(r, "get")
        /\ FulfilledCall(r, "set")

\* plan is one of the four tiers and value is a finite number >= 0
AllowedUpdate(plan, value) ==
    /\ plan \in {"plan1", "plan2", "plan3", "custom"}
    /\ value.type = "number" /\ value.finite
    /\ value.n >= 0

\* C29: POST /api/subscription/upgrade calls the record store only to set the
\* tier named by plan to value, and only when plan is one of plan1, plan2,
\* plan3, custom and value is a finite number >= 0; otherwise a request with
\* a verified token is answered 400 without a record-store call; every
\* stored tier is a non-negative number under one of the four keys.
C29_OnlyValidTiersStored ==
    /\ \A c \in Conns :
          LET r == reqs[c] IN
          IsUpgrade(r) =>
              /\ \A i \in 1..Len(r.calls) :
                     r.calls[i].op \in DbOps =>
                         /\ r.calls[i].op = "setTier"
                         /\ r.calls[i].type = r.body.plan
                         /\ r.calls[i].val = r.body.value
                         /\ AllowedUpdate(r.body.plan, r.body.value)
              /\ (/\ r.pc = "done" /\ FulfilledCall(r, "verifyIdToken")
                  /\ ~AllowedUpdate(r.body.plan, r.body.value)) =>
                     /\ r.res.status = 400
                     /\ \A i \in 1..Len(r.calls) : r.calls[i].op \notin DbOps
    /\ \A uid \in DOMAIN db :
          "subscription" \in DOMAIN db[uid] =>
              \A p \in DOMAIN db[uid]["subscription"] :
                  AllowedUpdate(p, db[uid]["subscription"][p])

\* C29 witness: an upgrade with a verified token and a negative value was
\* answered 400.
C29_Witness ==
    \E c \in Conns :
        LET r == reqs[c] IN
        /\ IsUpgrade(r) /\ r.pc = "done"
        /\ FulfilledCall(r, "verifyIdToken")
        /\ r.body.plan = "plan1" /\ r.body.value = Num(-1)
        /\ r.res.status = 400

\* the calls the external collaborators answer
ExternalOps ==
    {"listUsers", "createUser", "deleteUser", "updateUser", "remove",
     "delete_resources", "delete_resources_by_prefix", "delete_folder",
     "verifyToken", "verifyIdToken", "get", "set", "update", "setTier"}

\* C30: a request that has been handled has received exactly one response; a
\* request being handled has received none and is either awaiting an external
\* call or about to send its response; no request ever has two responses.
C30_ExactlyOneResponse ==
    \A c \in Conns :
        LET r == reqs[c] IN
        /\ r.sent <= 1
        /\ r.pc = "done" => (r.sent = 1 /\ r.res # NoResponse)
        /\ r.pc \in {"running", "catch"} => r.sent = 0
        /\ (r.pc = "running" /\ r.ip <= Len(Plan(r))) =>
               Plan(r)[r.ip].op \in ExternalOps

\* C30 witness: the ID token of a client-facing request was rejected and the
\* request got its one response, the 401 of the middleware.
C30_Witness ==
    \E c \in Conns :
        LET r == reqs[c] IN
        /\ IsClientRoute(r) /\ r.pc = "done"
        /\ RejectedCall(r, "verifyIdToken")
        /\ r.sent = 1
        /\ r.res.status = 401

====
